---- MODULE Spec2Model ----
(***************************************************************************)
(* Model of advection2D.c: explicit finite-difference integration of the   *)
(* 2D advection equation on an (NX+2) x (NY+2) grid with ghost cells.      *)
(*                                                                         *)
(* float values are modelled in fixed point: the integer n stands for the  *)
(* number n / Scale.  The IEEE special values the program can produce      *)
(* (division by zero in the time step, 0 * inf in the update) are kept as  *)
(* the reserved values PosInf, NegInf and NaN.                             *)
(***************************************************************************)
EXTENDS Integers, Sequences, FiniteSets, TLC

\* ------------------------------------------------------------------------
\* Bounds of the model
\* ------------------------------------------------------------------------
MaxN == 2
MaxSteps == 2
MaxParCells == 12

\* ------------------------------------------------------------------------
\* float arithmetic
\* ------------------------------------------------------------------------
Scale == 1000
PosInf == 1000000000
NegInf == -1000000000
NaN == 1000000001

IsNaN(a) == a = NaN
IsInf(a) == a = PosInf \/ a = NegInf
IsFin(a) == ~IsNaN(a) /\ ~IsInf(a)

Sign(a) == IF a > 0 THEN 1 ELSE IF a < 0 THEN -1 ELSE 0
InfOfSign(s) == IF s > 0 THEN PosInf ELSE NegInf

\* The operations on values
NegV(a) ==
  IF IsNaN(a) THEN NaN
  ELSE IF a = PosInf THEN NegInf
  ELSE IF a = NegInf THEN PosInf
  ELSE -a

AbsV(a) ==
  IF IsNaN(a) THEN NaN
  ELSE IF IsInf(a) THEN PosInf
  ELSE IF a < 0 THEN -a ELSE a

AddV(a, b) ==
  IF IsNaN(a) \/ IsNaN(b) THEN NaN
  ELSE IF IsInf(a) /\ IsInf(b) THEN (IF a = b THEN a ELSE NaN)
  ELSE IF IsInf(a) THEN a
  ELSE IF IsInf(b) THEN b
  ELSE a + b

MulV(a, b) ==
  IF IsNaN(a) \/ IsNaN(b) THEN NaN
  ELSE IF IsInf(a) \/ IsInf(b)
       THEN (IF a = 0 \/ b = 0 THEN NaN ELSE InfOfSign(Sign(a) * Sign(b)))
  ELSE (a * b) \div Scale

DivV(a, b) ==
  IF IsNaN(a) \/ IsNaN(b) THEN NaN
  ELSE IF IsInf(a) /\ IsInf(b) THEN NaN
  ELSE IF IsInf(a) THEN InfOfSign(Sign(a) * (IF b < 0 THEN -1 ELSE 1))
  ELSE IF IsInf(b) THEN 0
  ELSE IF b = 0 THEN (IF a = 0 THEN NaN ELSE InfOfSign(Sign(a)))
  ELSE (a * Scale) \div b

\* The operators on expressions: each operand is evaluated once
The(S) == CHOOSE r \in S : TRUE
FNeg(a) == The({NegV(v) : v \in {a}})
FAbs(a) == The({AbsV(v) : v \in {a}})
FAdd(a, b) == The({AddV(v[1], v[2]) : v \in {<<a, b>>}})
FSub(a, b) == The({AddV(v[1], NegV(v[2])) : v \in {<<a, b>>}})
FMul(a, b) == The({MulV(v[1], v[2]) : v \in {<<a, b>>}})
FDiv(a, b) == The({DivV(v[1], v[2]) : v \in {<<a, b>>}})

\* (float) k for an int k
Float(k) == k * Scale

\* log / logf: ln(y) = k ln 2 + ln(r), 1 <= r < 2,
\* ln(r) = 2 (z + z^3/3 + z^5/5), z = (r-1)/(r+1)
Ln2 == 693
LnPoly(z) ==
  LET z3 == MulV(MulV(z, z), z)
      z5 == MulV(MulV(MulV(MulV(z, z), z), z), z)
  IN  2 * (z + (z3 \div 3) + (z5 \div 5))

LnSeries(r) == LnPoly(DivV(r - Scale, r + Scale))

RECURSIVE LogReduce(_)
LogReduce(y) ==
  IF y >= 2 * Scale THEN Ln2 + LogReduce(y \div 2)
  ELSE IF y < Scale THEN LogReduce(2 * y) - Ln2
  ELSE LnSeries(y)

LogV(y) ==
  IF IsNaN(y) \/ y < 0 THEN NaN
  ELSE IF y = PosInf THEN PosInf
  ELSE IF y = 0 THEN NegInf
  ELSE LogReduce(y)

LogF(y) == The({LogV(v) : v \in {y}})

\* exp: e^a = 2^k e^r, -ln 2 <= r <= 0, e^r = 1 + r + r^2/2 + r^3/6 + r^4/24
ExpSeries(r) ==
  LET r2 == MulV(r, r)
      r3 == MulV(MulV(r, r), r)
      r4 == MulV(MulV(MulV(r, r), r), r)
  IN  Scale + r + (r2 \div 2) + (r3 \div 6) + (r4 \div 24)

\* 2^k e^r, saturating as float does
ExpReduce(a) ==
  IF a <= 0
  THEN LET k == (-a) \div Ln2
       IN  IF k > 30 THEN 0 ELSE ExpSeries(a + k * Ln2) \div (2 ^ k)
  ELSE LET k == (a \div Ln2) + 1
       IN  IF k > 20 THEN PosInf ELSE ExpSeries(a - k * Ln2) * (2 ^ k)

ExpV(a) ==
  IF IsNaN(a) THEN NaN
  ELSE IF a = PosInf THEN PosInf
  ELSE IF a = NegInf THEN 0
  ELSE ExpReduce(a)

ExpF(a) == The({ExpV(v) : v \in {a}})

\* ------------------------------------------------------------------------
\* State
\* ------------------------------------------------------------------------
VARIABLES
  cfg,          \* the configuration constants of main (lines 31-58) and the
                \* build's placement of the memory that follows the array y
  alt,          \* bval_right / bval_upper of a second run of the same program
  dx, dy,       \* distance between points
  dt,           \* time step
  pc,           \* where main is: "setup", "loop1" .. "loop11", "done"
  m,            \* time step index of LOOP 5
  pending,      \* iterations of the current parallel loop not yet executed
  mem,          \* the arrays x, y, u, dudt (and the memory after y)
  memB,         \* the arrays of the second run
  pre,          \* mem when the current loop was entered
  w,            \* u when the boundary loops of the current step finished
  initialfile,  \* rows handed to fprintf by LOOP 4
  finalfile,    \* rows handed to fprintf by LOOP 10
  averagefile,  \* rows handed to fprintf by LOOP 11
  oob           \* array accesses made so far outside the declared extent

vars == <<cfg, alt, dx, dy, dt, pc, m, pending, mem, memB, pre, w,
          initialfile, finalfile, averagefile, oob>>

\* Grid properties
NX == cfg.NX
NY == cfg.NY
xmin == 0
xmax == cfg.xmax
ymin == 0
ymax == cfg.ymax

\* Parameters for the Gaussian initial conditions
x0 == 3 * Scale
y0 == 15 * Scale
sigmax == 1 * Scale
sigmay == 5 * Scale
sigmax2 == FMul(sigmax, sigmax)
sigmay2 == FMul(sigmay, sigmay)

\* Boundary conditions
bval_left == cfg.bval_left
bval_right == cfg.bval_right
bval_lower == cfg.bval_lower
bval_upper == cfg.bval_upper

\* Time stepping parameters
CFL == (9 * Scale) \div 10
nsteps == cfg.nsteps

\* Velocity
velx == 1 * Scale
vely == cfg.vely

\* 0.2/0.41
VonKarman == FDiv(Scale \div 5, (41 * Scale) \div 100)

\* Declared extents of the arrays
XLen == NX + 2
YLen == NX + 2
ULen == <<NX + 2, NY + 2>>
DudtLen == <<NX + 2, NY + 2>>

\* Distance between points and time step, as main computes them
Spacing(lo, hi, n) == FDiv(FSub(hi, lo), Float(n))
TimeStep(ddx, ddy) ==
  FDiv(CFL, FAdd(FDiv(FAbs(FMul(VonKarman, LogF(FDiv(ymax, Float(1))))), ddx),
                 FDiv(FAbs(vely), ddy)))

Grid == (0 .. NX + 1) \X (0 .. NY + 1)
Interior == (1 .. NX) \X (1 .. NY)
Ghost == Grid \ Interior

\* ------------------------------------------------------------------------
\* Memory.  An access is <<array, i, j>> (j = 0 for the axis arrays).  An
\* index past the declared extent of y reaches whatever the build placed
\* after y: padding, or the start of x, u or dudt (cfg.layout).
\* ------------------------------------------------------------------------
Layouts == {"pad", "x", "u", "dudt"}
PadLen == MaxN + 1

InExtent(a) ==
  CASE a[1] = "x"    -> a[2] \in 0 .. XLen - 1
    [] a[1] = "y"    -> a[2] \in 0 .. YLen - 1
    [] a[1] = "u"    -> a[2] \in 0 .. ULen[1] - 1 /\ a[3] \in 0 .. ULen[2] - 1
    [] a[1] = "dudt" -> a[2] \in 0 .. DudtLen[1] - 1 /\ a[3] \in 0 .. DudtLen[2] - 1
    [] OTHER         -> TRUE

Loc(a) ==
  IF InExtent(a) THEN a
  ELSE LET k == a[2] - YLen IN
       CASE cfg.layout = "x" /\ k < XLen -> <<"x", k, 0>>
         [] cfg.layout = "u"    -> <<"u", k \div ULen[2], k % ULen[2]>>
         [] cfg.layout = "dudt" -> <<"dudt", k \div DudtLen[2], k % DudtLen[2]>>
         [] OTHER               -> <<"pad", k, 0>>

Read(s, a) ==
  LET l == Loc(a) IN
  CASE l[1] = "x"    -> s.x[l[2]]
    [] l[1] = "y"    -> s.y[l[2]]
    [] l[1] = "u"    -> s.u[l[2], l[3]]
    [] l[1] = "dudt" -> s.dudt[l[2], l[3]]
    [] OTHER         -> s.pad[l[2]]

Write(s, a, v) ==
  LET l == Loc(a) IN
  CASE l[1] = "x"    -> [s EXCEPT !.x[l[2]] = v]
    [] l[1] = "y"    -> [s EXCEPT !.y[l[2]] = v]
    [] l[1] = "u"    -> [s EXCEPT !.u[l[2], l[3]] = v]
    [] l[1] = "dudt" -> [s EXCEPT !.dudt[l[2], l[3]] = v]
    [] OTHER         -> [s EXCEPT !.pad[l[2]] = v]

\* Arrays as declared: contents indeterminate, never read before written.
Uninit == NaN
Declared ==
  [x    |-> [i \in 0 .. XLen - 1 |-> Uninit],
   y    |-> [j \in 0 .. YLen - 1 |-> Uninit],
   u    |-> [p \in (0 .. ULen[1] - 1) \X (0 .. ULen[2] - 1) |-> Uninit],
   dudt |-> [p \in (0 .. DudtLen[1] - 1) \X (0 .. DudtLen[2] - 1) |-> Uninit],
   pad  |-> [k \in 0 .. PadLen - 1 |-> Uninit]]

\* ------------------------------------------------------------------------
\* Loop bodies: one iteration it = <<i, j>> applied to the arrays s.
\* bv = <<left, right, lower, upper>> are the boundary values of the run.
\* ------------------------------------------------------------------------
Half == Scale \div 2

\* LOOP 1
Loop1Body(s, i) ==
  Write(s, <<"x", i, 0>>, FMul(FSub(Float(i), Half), dx))

\* LOOP 2
Loop2Body(s, j) ==
  Write(s, <<"y", j, 0>>, FMul(FSub(Float(j), Half), dy))

\* LOOP 3
Loop3Body(s, i, j) ==
  LET xi == Read(s, <<"x", i, 0>>)
      yj == Read(s, <<"y", j, 0>>)
      x2 == FMul(FSub(xi, x0), FSub(xi, x0))
      y2 == FMul(FSub(yj, y0), FSub(yj, y0))
  IN  Write(s, <<"u", i, j>>,
            ExpF(FMul(Float(-1), FAdd(FDiv(x2, FMul(Float(2), sigmax2)),
                                     FDiv(y2, FMul(Float(2), sigmay2))))))

\* Mutant of Loop6Body: the right boundary written one column short
Loop6Body_WrongColumn(s, j, bv) ==
  Write(Write(s, <<"u", 0, j>>, bv[1]), <<"u", NX, j>>, bv[2])

\* LOOP 6
Loop6Body(s, j, bv) ==
  Write(Write(s, <<"u", 0, j>>, bv[1]), <<"u", NX + 1, j>>, bv[2])

\* Mutant of Loop7Body: the lower boundary written one row too high
Loop7Body_WrongRow(s, i, bv) ==
  Write(Write(s, <<"u", i, 1>>, bv[3]), <<"u", i, NY + 1>>, bv[4])

\* LOOP 7
Loop7Body(s, i, bv) ==
  Write(Write(s, <<"u", i, 0>>, bv[3]), <<"u", i, NY + 1>>, bv[4])

\* Mutant of Derivative: the constant velocity velx on every row
Derivative_Velx(s, i, j) ==
  LET uij  == Read(s, <<"u", i, j>>)
      ddx  == FSub(uij, Read(s, <<"u", i - 1, j>>))
      ddy  == FSub(uij, Read(s, <<"u", i, j - 1>>))
      ypart == FDiv(FMul(vely, ddy), dy)
  IN  FMul(Float(-1), FAdd(FDiv(FMul(velx, ddx), dx), ypart))

\* Mutant of Derivative: the velocity taken at the cell centre y[j]
Derivative_CellCentred(s, i, j) ==
  LET yc   == Read(s, <<"y", j, 0>>)
      uij  == Read(s, <<"u", i, j>>)
      ddx  == FSub(uij, Read(s, <<"u", i - 1, j>>))
      ddy  == FSub(uij, Read(s, <<"u", i, j - 1>>))
      ypart == FDiv(FMul(vely, ddy), dy)
  IN  IF yc > Float(1)
      THEN LET Vx == FMul(VonKarman, LogF(FDiv(yc, Float(1))))
           IN  FMul(Float(-1), FAdd(FDiv(FMul(Vx, ddx), dx), ypart))
      ELSE FMul(Float(-1), FAdd(FDiv(FMul(0, ddx), dx), ypart))

\* Mutant of Derivative: forward instead of backward difference in x
Derivative_Forward(s, i, j) ==
  LET y    == FMul(Float(j), dy)
      uij  == Read(s, <<"u", i, j>>)
      ddx  == FSub(Read(s, <<"u", i + 1, j>>), uij)
      ddy  == FSub(uij, Read(s, <<"u", i, j - 1>>))
      ypart == FDiv(FMul(vely, ddy), dy)
  IN  IF y > Float(1)
      THEN LET Vx == FMul(VonKarman, LogF(FDiv(y, Float(1))))
           IN  FMul(Float(-1), FAdd(FDiv(FMul(Vx, ddx), dx), ypart))
      ELSE FMul(Float(-1), FAdd(FDiv(FMul(0, ddx), dx), ypart))

\* LOOP 8: the rate of change at (i, j)
Derivative(s, i, j) ==
  LET y    == FMul(Float(j), dy)
      uij  == Read(s, <<"u", i, j>>)
      ddx  == FSub(uij, Read(s, <<"u", i - 1, j>>))
      ddy  == FSub(uij, Read(s, <<"u", i, j - 1>>))
      ypart == FDiv(FMul(vely, ddy), dy)
  IN  IF y > Float(1)
      THEN LET Vx == FMul(VonKarman, LogF(FDiv(y, Float(1))))
           IN  FMul(Float(-1), FAdd(FDiv(FMul(Vx, ddx), dx), ypart))
      ELSE FMul(Float(-1), FAdd(FDiv(FMul(0, ddx), dx), ypart))

\* Mutant of Loop8Body: derivative and update fused into one pass
Loop8Body_Fused(s, i, j) ==
  Write(Write(s, <<"dudt", i, j>>, Derivative(s, i, j)),
        <<"u", i, j>>, FAdd(Read(s, <<"u", i, j>>), FMul(Derivative(s, i, j), dt)))

Loop8Body(s, i, j) ==
  Write(s, <<"dudt", i, j>>, Derivative(s, i, j))

\* LOOP 9
Loop9Body(s, i, j) ==
  Write(s, <<"u", i, j>>,
        FAdd(Read(s, <<"u", i, j>>), FMul(Read(s, <<"dudt", i, j>>), dt)))

ParLoops == {"loop1", "loop2", "loop3", "loop6", "loop7", "loop8", "loop9"}

Body(loop, s, it, bv) ==
  CASE loop = "loop1" -> Loop1Body(s, it[1])
    [] loop = "loop2" -> Loop2Body(s, it[2])
    [] loop = "loop3" -> Loop3Body(s, it[1], it[2])
    [] loop = "loop6" -> Loop6Body(s, it[2], bv)
    [] loop = "loop7" -> Loop7Body(s, it[1], bv)
    [] loop = "loop8" -> Loop8Body(s, it[1], it[2])
    [] loop = "loop9" -> Loop9Body(s, it[1], it[2])

\* The iterations of a loop in program order
Iters(loop) ==
  CASE loop \in {"loop1", "loop7"} -> [k \in 1 .. NX + 2 |-> <<k - 1, 0>>]
    [] loop \in {"loop2", "loop6"} -> [k \in 1 .. NY + 2 |-> <<0, k - 1>>]
    [] loop \in {"loop3", "loop4", "loop10", "loop11"} ->
         [k \in 1 .. (NX + 2) * (NY + 2) |->
            <<(k - 1) \div (NY + 2), (k - 1) % (NY + 2)>>]
    [] loop \in {"loop8", "loop9"} ->
         [k \in 1 .. NX * NY |-> <<1 + ((k - 1) \div NY), 1 + ((k - 1) % NY)>>]
    [] OTHER -> <<>>

AllIters(loop) == {Iters(loop)[k] : k \in DOMAIN Iters(loop)}
IterSet(loop) == IF loop \in ParLoops THEN AllIters(loop) ELSE {}

\* The array elements one iteration reads and writes
Reads(loop, it) ==
  CASE loop = "loop3" -> {<<"x", it[1], 0>>, <<"y", it[2], 0>>}
    [] loop \in {"loop4", "loop10"} ->
         {<<"x", it[1], 0>>, <<"y", it[2], 0>>, <<"u", it[1], it[2]>>}
    [] loop = "loop11" -> {<<"x", it[1], 0>>, <<"u", it[1], it[2]>>}
    [] loop = "loop8" -> {<<"u", it[1], it[2]>>, <<"u", it[1] - 1, it[2]>>,
                          <<"u", it[1], it[2] - 1>>}
    [] loop = "loop9" -> {<<"u", it[1], it[2]>>, <<"dudt", it[1], it[2]>>}
    [] OTHER -> {}

Writes(loop, it) ==
  CASE loop = "loop1" -> {<<"x", it[1], 0>>}
    [] loop = "loop2" -> {<<"y", it[2], 0>>}
    [] loop = "loop3" -> {<<"u", it[1], it[2]>>}
    [] loop = "loop6" -> {<<"u", 0, it[2]>>, <<"u", NX + 1, it[2]>>}
    [] loop = "loop7" -> {<<"u", it[1], 0>>, <<"u", it[1], NY + 1>>}
    [] loop = "loop8" -> {<<"dudt", it[1], it[2]>>}
    [] loop = "loop9" -> {<<"u", it[1], it[2]>>}
    [] OTHER -> {}

Accesses(loop, it) == Reads(loop, it) \cup Writes(loop, it)

OutOfExtent(loop, its) ==
  {a \in UNION {Accesses(loop, it) : it \in its} : ~InExtent(a)}

\* A loop executed in program order from its k-th iteration on
RECURSIVE RunFrom(_, _, _, _)
RunFrom(loop, s, k, bv) ==
  IF k > Len(Iters(loop)) THEN s
  ELSE The({RunFrom(loop, t, k + 1, bv) : t \in {Body(loop, s, Iters(loop)[k], bv)}})

\* A whole loop executed in program order
RunSeq(loop, s, bv) == RunFrom(loop, s, 1, bv)

\* ------------------------------------------------------------------------
\* Initial states: main entered with its constants set and its arrays declared
\* ------------------------------------------------------------------------
XMaxVals == {Float(4)}
YMaxVals == {Half, Float(1), Float(2), Float(30)}
VelyVals == {0, Float(1)}
\* <<bval_left, bval_right, bval_lower, bval_upper>>
BoundaryVals ==
  {<<0, 0, 0, 0>>, <<Float(1), 0, 0, Float(1)>>,
   <<0, Float(1), Float(1), 0>>, <<Float(1), Float(1), Float(1), Float(1)>>}

LayoutsOf(nx, ny) == IF ny > nx THEN Layouts ELSE {"pad"}

ConfigsOf(steps, ymaxs, velys, bvs) ==
  {c \in {[NX |-> nx, NY |-> ny, nsteps |-> n, xmax |-> xm, ymax |-> ym,
           vely |-> vy, bval_left |-> b[1], bval_right |-> b[2],
           bval_lower |-> b[3], bval_upper |-> b[4], layout |-> l] :
             nx \in 1 .. MaxN, ny \in 1 .. MaxN, n \in steps, xm \in XMaxVals,
             ym \in ymaxs, vy \in velys, b \in bvs, l \in Layouts} :
     c.layout \in LayoutsOf(c.NX, c.NY)}

Configs == ConfigsOf(0 .. MaxSteps, YMaxVals, VelyVals, BoundaryVals)

LiveConfigs ==
  ConfigsOf(0 .. MaxSteps, {Float(1), Float(30)}, VelyVals, {<<0, 0, 0, 0>>})

ParConfigs ==
  {c \in ConfigsOf({MaxSteps}, {Float(2), Float(30)}, {Float(1)},
                   {<<0, 0, Float(1), 0>>}) :
     (c.NX + 2) * (c.NY + 2) <= MaxParCells}

Start(c, a) ==
  /\ cfg = c
  /\ alt = a
  /\ dx = Uninit
  /\ dy = Uninit
  /\ dt = Uninit
  /\ pc = "setup"
  /\ m = 0
  /\ pending = {}
  /\ mem = Declared
  /\ memB = Declared
  /\ pre = Declared
  /\ w = Declared.u
  /\ initialfile = <<>>
  /\ finalfile = <<>>
  /\ averagefile = <<>>
  /\ oob = {}

\* The second run differs from the first in bval_right and bval_upper
AltVals == {[bval_right |-> Float(2), bval_upper |-> Float(3)]}

Init ==
  \E c \in Configs : \E a \in AltVals : Start(c, a)

LiveInit ==
  \E c \in LiveConfigs : \E a \in AltVals : Start(c, a)

ParInit ==
  \E c \in ParConfigs : \E a \in AltVals : Start(c, a)

\* ------------------------------------------------------------------------
\* Actions
\* ------------------------------------------------------------------------
BV == <<bval_left, bval_right, bval_lower, bval_upper>>
BVB == <<bval_left, alt.bval_right, bval_lower, alt.bval_upper>>

NextPc(loop) ==
  CASE loop = "loop1" -> "loop2"
    [] loop = "loop2" -> "loop3"
    [] loop = "loop3" -> "loop4"
    [] loop = "loop6" -> "loop7"
    [] loop = "loop7" -> "loop8"
    [] loop = "loop8" -> "loop9"
    [] loop = "loop9" -> "loop5"

\* Leaving a parallel loop; after LOOP 9 the increment m++ of LOOP 5.
Finish(loop) ==
  /\ pc' = NextPc(loop)
  /\ pending' = IterSet(NextPc(loop))
  /\ pre' = mem'
  /\ w' = IF loop = "loop7" THEN mem'.u ELSE w
  /\ m' = IF loop = "loop9" THEN m + 1 ELSE m

\* A parallel loop run by one thread: all iterations in program order
SeqLoop(loop) ==
  /\ pc = loop
  /\ mem' = RunSeq(loop, mem, BV)
  /\ memB' = RunSeq(loop, memB, BVB)
  /\ oob' = oob \cup OutOfExtent(loop, AllIters(loop))
  /\ Finish(loop)
  /\ UNCHANGED <<cfg, alt, dx, dy, dt, initialfile, finalfile, averagefile>>

\* A parallel loop run by a team of threads: one iteration, any pending one
ParIter(loop) ==
  /\ pc = loop
  /\ \E it \in pending :
       /\ mem' = Body(loop, mem, it, BV)
       /\ memB' = Body(loop, memB, it, BVB)
       /\ oob' = oob \cup OutOfExtent(loop, {it})
       /\ pending' = pending \ {it}
  /\ UNCHANGED <<cfg, alt, dx, dy, dt, pc, m, pre, w,
                 initialfile, finalfile, averagefile>>

\* The implicit barrier at the end of a parallel loop
ParBarrier ==
  /\ pc \in ParLoops
  /\ pending = {}
  /\ UNCHANGED <<mem, memB, oob>>
  /\ Finish(pc)
  /\ UNCHANGED <<cfg, alt, dx, dy, dt, initialfile, finalfile, averagefile>>

\* Lines 70-87: grid spacing and time step
Setup ==
  /\ pc = "setup"
  /\ dx' = Spacing(xmin, xmax, NX)
  /\ dy' = Spacing(ymin, ymax, NY)
  /\ dt' = TimeStep(dx', dy')
  /\ pc' = "loop1"
  /\ pending' = IterSet("loop1")
  /\ UNCHANGED <<cfg, alt, m, mem, memB, pre, w,
                 initialfile, finalfile, averagefile, oob>>

Loop1 == SeqLoop("loop1")
Loop2 == SeqLoop("loop2")
Loop3 == SeqLoop("loop3")
Loop6 == SeqLoop("loop6")
Loop7 == SeqLoop("loop7")
Loop8 == SeqLoop("loop8")
Loop9 == SeqLoop("loop9")

ParLoop1 == ParIter("loop1")
ParLoop2 == ParIter("loop2")
ParLoop3 == ParIter("loop3")
ParLoop6 == ParIter("loop6")
ParLoop7 == ParIter("loop7")
ParLoop8 == ParIter("loop8")
ParLoop9 == ParIter("loop9")

\* The rows x[i], y[j], u[i][j] handed to fprintf
Rows(s) ==
  [p \in Grid |-> <<Read(s, <<"x", p[1], 0>>), Read(s, <<"y", p[2], 0>>),
                    Read(s, <<"u", p[1], p[2]>>)>>]

\* LOOP 4, then the initialisation m = 0 of LOOP 5
Loop4 ==
  /\ pc = "loop4"
  /\ initialfile' = Rows(mem)
  /\ oob' = oob \cup OutOfExtent("loop4", AllIters("loop4"))
  /\ pc' = "loop5"
  /\ m' = 0
  /\ UNCHANGED <<cfg, alt, dx, dy, dt, pending, mem, memB, pre, w, finalfile, averagefile>>

\* Mutants of TimeLoopTest: one step too many; a do-while loop
TimeLoopTest_OffByOne == m <= nsteps
TimeLoopTest_DoWhile == m = 0 \/ m < nsteps

\* LOOP 5: the test m < nsteps
TimeLoopTest == m < nsteps

Loop5Enter ==
  /\ pc = "loop5"
  /\ TimeLoopTest
  /\ pc' = "loop6"
  /\ pending' = IterSet("loop6")
  /\ UNCHANGED <<cfg, alt, dx, dy, dt, m, mem, memB, pre, w,
                 initialfile, finalfile, averagefile, oob>>

Loop5Exit ==
  /\ pc = "loop5"
  /\ ~TimeLoopTest
  /\ pc' = "loop10"
  /\ UNCHANGED <<cfg, alt, dx, dy, dt, m, pending, mem, memB, pre, w,
                 initialfile, finalfile, averagefile, oob>>

\* LOOP 10
Loop10 ==
  /\ pc = "loop10"
  /\ finalfile' = Rows(mem)
  /\ oob' = oob \cup OutOfExtent("loop10", AllIters("loop10"))
  /\ pc' = "loop11"
  /\ UNCHANGED <<cfg, alt, dx, dy, dt, m, pending, mem, memB, pre, w,
                 initialfile, averagefile>>

\* LOOP 11
RECURSIVE MovingSum(_, _, _)
MovingSum(s, i, j) ==
  IF j < 0 THEN 0
  ELSE FAdd(MovingSum(s, i, j - 1), Read(s, <<"u", i, j>>))

Loop11 ==
  /\ pc = "loop11"
  /\ averagefile' =
       [i \in 0 .. NX + 1 |->
          <<Read(mem, <<"x", i, 0>>), FDiv(MovingSum(mem, i, NY + 1), Float(NY))>>]
  /\ oob' = oob \cup OutOfExtent("loop11", AllIters("loop11"))
  /\ pc' = "done"
  /\ UNCHANGED <<cfg, alt, dx, dy, dt, m, pending, mem, memB, pre, w,
                 initialfile, finalfile>>

Next ==
  \/ Setup
  \/ Loop1 \/ Loop2 \/ Loop3 \/ Loop4
  \/ Loop5Enter \/ Loop5Exit
  \/ Loop6 \/ Loop7 \/ Loop8 \/ Loop9
  \/ Loop10 \/ Loop11

ParNext ==
  \/ Setup
  \/ ParLoop1 \/ ParLoop2 \/ ParLoop3 \/ Loop4
  \/ Loop5Enter \/ Loop5Exit
  \/ ParLoop6 \/ ParLoop7 \/ ParLoop8 \/ ParLoop9
  \/ ParBarrier
  \/ Loop10 \/ Loop11

\* One thread (OMP_NUM_THREADS = 1)
Spec == Init /\ [][Next]_vars

\* One thread, and main runs to its end
LiveSpec == LiveInit /\ [][Next]_vars /\ WF_vars(Next)

\* A team of threads
ParSpec == ParInit /\ [][ParNext]_vars

\* The arrays of the run
u == mem.u
dudt == mem.dudt

\* ------------------------------------------------------------------------
\* Properties
\* ------------------------------------------------------------------------
\* At least one time step has completed and LOOP 5 is at its test
StepDone == pc = "loop5" /\ m >= 1

\* The initial field, as LOOP 4 handed it to the output
U0(p) == initialfile[p][3]

\* C1 as stated: after every completed time step every cell of column 0 holds
\* bval_left, of column NX+1 bval_right, of row 0 bval_lower and of row NY+1
\* bval_upper, the four corners included in both their column and their row.
C1_AsStated ==
  StepDone =>
    /\ \A j \in 0 .. NY + 1 : u[0, j] = bval_left /\ u[NX + 1, j] = bval_right
    /\ \A i \in 0 .. NX + 1 : u[i, 0] = bval_lower /\ u[i, NY + 1] = bval_upper

\* C1 amended: after every completed time step u[0][j] = bval_left and
\* u[NX+1][j] = bval_right for j in 1..NY only, and u[i][0] = bval_lower and
\* u[i][NY+1] = bval_upper for all i in 0..NX+1: LOOP 7 runs after LOOP 6, so
\* the corners hold the lower / upper value.
C1_GhostCellsAfterStep ==
  StepDone =>
    /\ \A j \in 1 .. NY : u[0, j] = bval_left /\ u[NX + 1, j] = bval_right
    /\ \A i \in 0 .. NX + 1 : u[i, 0] = bval_lower /\ u[i, NY + 1] = bval_upper

C1_Witness ==
  /\ StepDone
  /\ bval_left # bval_lower
  /\ bval_right # bval_upper
  /\ \E p \in Ghost : U0(p) # u[p]

\* The streamwise velocity of row j as the specification gives it
StreamwiseVelocity(yy) ==
  IF yy > Float(1) THEN FMul(VonKarman, LogF(yy)) ELSE 0

\* -( v(j) (f[i][j] - f[i-1][j]) / dx + vely (f[i][j] - f[i][j-1]) / dy )
Upwind(f, p) ==
  FNeg(FAdd(FDiv(FMul(StreamwiseVelocity(p[2] * dy),
                      FSub(f[p], f[p[1] - 1, p[2]])), dx),
            FDiv(FMul(vely, FSub(f[p], f[p[1], p[2] - 1])), dy)))

Euler(f, p) == FAdd(f[p], FMul(dt, Upwind(f, p)))

\* C2: two-phase barrier.  While LOOP 8 runs u is still the field w the
\* boundary loops left; when LOOP 9 starts dudt holds the derivative of w at
\* every interior point; every interior cell LOOP 9 has not reached still holds
\* w, every cell it has reached holds w + dt * upwind(w); and when the step is
\* complete every interior cell holds w + dt * upwind(w).
C2_TwoPhaseBarrier ==
  /\ pc = "loop8" => u = w
  /\ pc = "loop9" =>
       \A p \in Interior :
         /\ dudt[p] = Upwind(w, p)
         /\ u[p] = IF p \in pending THEN w[p] ELSE Euler(w, p)
  /\ StepDone => \A p \in Interior : u[p] = Euler(w, p)

C2_Witness ==
  /\ StepDone
  /\ m = 2
  /\ \E p \in Interior :
       /\ p[1] >= 2
       /\ u[p] # w[p]
       /\ u[p[1] - 1, p[2]] # w[p[1] - 1, p[2]]

\* The velocity is zero on every interior row, and so is vely
ZeroFlow == vely = 0 /\ \A j \in 1 .. NY : j * dy <= Float(1)

\* C3 as stated: with zero flow, after any number of steps every element of u,
\* ghost cells included, equals its initial value.
C3_AsStated ==
  (ZeroFlow /\ pc = "loop5") => \A p \in Grid : u[p] = U0(p)

\* C3 amended: with zero flow and a finite time step dt, after any number of
\* steps every interior element equals its initial value; the ghost cells
\* equal their initial values as long as no step has run.
C3_ZeroFlowKeepsInterior ==
  (ZeroFlow /\ IsFin(dt) /\ pc = "loop5") =>
    /\ \A p \in Interior : u[p] = U0(p)
    /\ m = 0 => \A p \in Ghost : u[p] = U0(p)

C3_Witness ==
  /\ ZeroFlow /\ IsFin(dt) /\ pc = "loop5" /\ m = 2
  /\ \E p \in Ghost : u[p] # U0(p)
  /\ \E p \in Interior : u[p] # 0 /\ u[p] # u[p[1] - 1, p[2]]

\* The memory locations a set of accesses resolves to
Locs(S) == {Loc(a) : a \in S}

\* C4: in each parallel loop no two distinct iterations access the same
\* location with at least one of them writing it, and the arrays after the
\* loop are those of the sequential execution whatever the interleaving.
C4_AsStated ==
  /\ pc \in ParLoops =>
       \A a, b \in AllIters(pc) :
         a # b => Locs(Writes(pc, a)) \cap Locs(Accesses(pc, b)) = {}
  /\ (pc \in ParLoops /\ pending = {}) =>
       mem = RunSeq(pc, pre, BV)

InTimeStep == pc \in {"loop6", "loop7", "loop8", "loop9"}
AfterTimeLoop == pc \in {"loop10", "loop11", "done"}

\* The order of the phases of the time loop
Cycle ==
  {<<"loop5", "loop6">>, <<"loop6", "loop7">>, <<"loop7", "loop8">>,
   <<"loop8", "loop9">>, <<"loop9", "loop5">>, <<"loop5", "loop10">>}

\* C5: inside a step the index m is in [0, nsteps); a step is one cycle
\* boundary x, boundary y, derivative, update, after which m grows by one and
\* at no other time; main reaches the end of the time loop, and has then run
\* exactly nsteps cycles; from then on u is not written.
C5_TimeStepper ==
  /\ [](InTimeStep => (0 <= m /\ m < nsteps))
  /\ [][(pc \in {"loop5", "loop6", "loop7", "loop8", "loop9"} /\ pc' # pc)
          => <<pc, pc'>> \in Cycle]_vars
  /\ [][m' # m => (pc = "loop9" /\ pc' = "loop5" /\ m' = m + 1)]_vars
  /\ [](AfterTimeLoop => m = nsteps)
  /\ [][AfterTimeLoop => u' = u]_vars
  /\ <>(pc = "done")

C5_Witness == pc = "done" /\ m = nsteps /\ nsteps >= 2

\* C6: with nsteps = 0 the body of the time loop never runs and the final
\* field handed to the output equals the initial field at every element.
C6_NoStepsNoMutation ==
  nsteps = 0 =>
    /\ ~InTimeStep
    /\ pc \in {"loop11", "done"} => \A p \in Grid : finalfile[p][3] = U0(p)

C6_Witness ==
  /\ nsteps = 0 /\ pc = "done"
  /\ \E j \in 1 .. NY : finalfile[<<0, j>>][3] # bval_left
  /\ \E i \in 1 .. NX : finalfile[<<i, 0>>][3] # bval_lower

\* C7: the value LOOP 8 stores at (i, j) is
\* -( V (u[i][j]-u[i-1][j]) / dx + vely (u[i][j]-u[i][j-1]) / dy ) with V a
\* function of j * dy alone: 0 when j * dy <= 1 and (0.2/0.41) ln(j * dy)
\* when j * dy > 1.
C7_VelocityOfRow ==
  pc = "loop9" =>
    \A p \in Interior :
      LET V   == IF p[2] * dy <= Float(1) THEN 0
                 ELSE FMul(FDiv(Float(1) \div 5, (Float(1) * 41) \div 100),
                           LogF(p[2] * dy))
          ddx == FSub(w[p], w[p[1] - 1, p[2]])
          ddy == FSub(w[p], w[p[1], p[2] - 1])
      IN  dudt[p] = FNeg(FAdd(FDiv(FMul(V, ddx), dx), FDiv(FMul(vely, ddy), dy)))

C7_Witness ==
  /\ pc = "loop9" /\ NY >= 2 /\ vely = 0
  /\ 1 * dy = Float(1)
  /\ \E i \in 1 .. NX :
       /\ w[i, 1] # w[i - 1, 1] /\ dudt[i, 1] = 0
       /\ dudt[i, 2] # 0

\* C8: LOOP 8 and LOOP 9 write no ghost cell, LOOP 6 and LOOP 7 write no
\* interior cell, and at the end of a step every ghost cell holds the value
\* the boundary loops gave it.
C8_GhostFrame ==
  /\ [][(pc \in {"loop8", "loop9"} => \A p \in Ghost : u'[p] = u[p])
        /\ (pc \in {"loop6", "loop7"} => \A p \in Interior : u'[p] = u[p])]_vars
  /\ [](StepDone => \A p \in Ghost : u[p] = w[p])

C8_Witness ==
  /\ StepDone
  /\ \E p \in Interior : u[p] # w[p]
  /\ \E p \in Ghost : u[p] # U0(p)

\* C9: every index used to read or write x, y, u and dudt lies within the
\* declared extent of the array.
C9_AsStated == oob = {}

\* The cells the backward stencil can reach: the interior and the left and
\* lower ghost cells next to it
Upstream ==
  Interior \cup {<<0, j>> : j \in 1 .. NY} \cup {<<i, 0>> : i \in 1 .. NX}

\* C10: two runs that differ only in bval_right and bval_upper agree, after
\* any number of steps, on the interior and on the left and lower ghost cells.
C10_RightUpperNoInfluence ==
  pc \in {"loop5", "loop10", "loop11", "done"} =>
    \A p \in Upstream : mem.u[p] = memB.u[p]

C10_Witness ==
  /\ StepDone /\ m = 2
  /\ mem.u[NX + 1, 1] # memB.u[NX + 1, 1]
  /\ mem.u[1, NY + 1] # memB.u[1, NY + 1]
  /\ \E p \in Interior : mem.u[p] # U0(p)

====
